---- MODULE Spec2Model ----
(***************************************************************************)
(* Model of src/index.js: the BAYC holder / balance pipeline.              *)
(*                                                                         *)
(* One action is one event-loop turn: the arrival of a remote response or  *)
(* the expiry of a backoff timer, together with every promise continuation *)
(* that runs before the next turn (the rest of withRetry, the release of   *)
(* the p-limit slot and the admission of the next queued task, the         *)
(* Promise.all join, the forEach accumulation and the submission of the    *)
(* next batch).                                                            *)
(***************************************************************************)
EXTENDS Integers, Sequences, FiniteSets, TLC

\* ---- bounds of the model -------------------------------------------------
MaxSupply == 3        \* largest totalSupply() the ledger reports

\* ---- program constants ---------------------------------------------------
RETRY_ATTEMPTS == 3
RETRY_DELAY == 1000
EtherDecimals == 18

Nonexistent == "ERC721: owner query for nonexistent token"
Transient == "transient"
NoError == "none"

\* JavaScript values: null is the empty tuple, undefined a pair, and any
\* other value v is <<v>>
null == <<>>
Some(v) == <<v>>
undefined == <<"undefined", "undefined">>

\* ---- the configuration (inputs) -----------------------------------------
\* CONFIG is read, never written: the runs are checked for every combination
\* of these values of CONCURRENT_REQUESTS and of the two batch sizes (a batch
\* smaller than, equal to and larger than the limit and the item count)
ConcurrencyLimits == {1, 2}
BatchSizes == {1, 2, 3}

\* ---- the remote ledger (inputs) -----------------------------------------
Owners == {"A", "B"}
NoOwner == "none"
BalanceValues == {0, 5, 10}

VARIABLES
  ownerOf,              \* ledger: token id -> owner, or NoOwner (ownerOf reverts)
  balanceOf,            \* ledger: address -> balance in wei
  CONFIG,               \* CONCURRENT_REQUESTS, OWNER_BATCH_SIZE, BALANCE_BATCH_SIZE
  pc,                   \* "start" | "owners" | "balances" | "done" | "failed"
  caught,               \* the error caught by main, or NoError
  tasks,                \* the promises of the current batch, in batch order
  queue,                \* p-limit's queue: indices into tasks, FIFO
  batches,              \* the batches the running for-loop has not finished
  totalSupplyNum,
  uniqueHolders,        \* the Set, as its insertion-ordered sequence
  processedTokens,
  skippedTokens,
  totalETH,
  processedHolders,
  failedBalanceChecks,
  formattedTotal,       \* the value calculateTotalETHForHolders returned, or null
  progressLog,          \* the progress lines printed so far
  submitted,            \* history: every item handed to this.limit, in order
  lastSettled           \* history: the withRetry call that settled last, or null

vars == <<ownerOf, balanceOf, CONFIG, pc, caught, tasks, queue, batches,
          totalSupplyNum, uniqueHolders, processedTokens, skippedTokens,
          totalETH, processedHolders, failedBalanceChecks, formattedTotal,
          progressLog, submitted, lastSettled>>

\* ---- helpers -------------------------------------------------------------
RECURSIVE Pow2(_)
Pow2(n) == IF n = 0 THEN 1 ELSE 2 * Pow2(n - 1)

Min(a, b) == IF a < b THEN a ELSE b

Ceil(a, b) == (a + b - 1) \div b

Range(f) == {f[x] : x \in DOMAIN f}

\* faulty variant: add() that does not look for the element
SetAdd_always(set, x) == Append(set, x)

\* Set.prototype.add on the insertion-ordered sequence
SetAdd(set, x) == IF x \in Range(set) THEN set ELSE Append(set, x)

\* the decimal digits of n, most significant first (0 is <<0>>)
RECURSIVE toDigits(_)
toDigits(n) == IF n < 10 THEN <<n>> ELSE Append(toDigits(n \div 10), n % 10)

\* ds with zeros in front, up to len digits
padStart(ds, len) ==
  IF Len(ds) >= len THEN ds
  ELSE [i \in 1..len |-> IF i <= len - Len(ds) THEN 0 ELSE ds[i - (len - Len(ds))]]

\* drop trailing zeros, keeping at least one digit
trimEnd(ds) ==
  LET keep == {1} \cup {i \in 1..Len(ds) : ds[i] # 0}
  IN SubSeq(ds, 1, CHOOSE n \in keep : \A m \in keep : m <= n)

\* ethers.formatEther: the decimal string "whole.frac" of wei / 10^18, as the
\* digits before and after the point ("0.0" is <<<<0>>, <<0>>>>)
formatEther(wei) ==
  LET ds == padStart(toDigits(wei), EtherDecimals + 1)
      cut == Len(ds) - EtherDecimals
  IN <<SubSeq(ds, 1, cut), trimEnd(SubSeq(ds, cut + 1, Len(ds)))>>

\* faulty variant: Math.floor for Math.ceil, the short last chunk is lost
chunk_dropPartial(arr, size) ==
  [i \in 1..(Len(arr) \div size) |->
     SubSeq(arr, (i - 1) * size + 1, (i - 1) * size + size)]

\* faulty variant: Math.max(1, Math.ceil(...)), an empty array gives one
\* empty chunk
chunk_emptyChunk(arr, size) ==
  IF arr = <<>> THEN << <<>> >>
  ELSE [i \in 1..Ceil(Len(arr), size) |->
          SubSeq(arr, (i - 1) * size + 1, Min((i - 1) * size + size, Len(arr)))]

\* faulty variant: slice(i * size, i * size + size + 1), a chunk takes the
\* first item of the next chunk as well
chunk_overlap(arr, size) ==
  [i \in 1..Ceil(Len(arr), size) |->
     SubSeq(arr, (i - 1) * size + 1, Min((i - 1) * size + size + 1, Len(arr)))]

\* chunk(arr, size), src/index.js:76-79
chunk(arr, size) ==
  [i \in 1..Ceil(Len(arr), size) |->
     SubSeq(arr, (i - 1) * size + 1, Min((i - 1) * size + size, Len(arr)))]

\* ---- withRetry, one call as a record ------------------------------------
\* st: "queued" (inside p-limit's queue), "calling" (fn() in flight),
\*     "backoff" (setTimeout pending), "fulfilled", "rejected"
\* i: the loop variable; calls: invocations of fn so far; delays: the delays
\* waited so far; value: the settled value or error
\* fails, reverts: how often the remote call has failed with a transient error
\* and with the nonexistent-token revert
NewTask(kind, item) ==
  [kind |-> kind, item |-> item, st |-> "queued", i |-> 0, calls |-> 0,
   delays |-> <<>>, value |-> null, fails |-> 0, reverts |-> 0]

\* line 59-61: the loop is entered and fn() is invoked
withRetryStart(t) ==
  IF 0 < RETRY_ATTEMPTS
  THEN [t EXCEPT !.st = "calling", !.i = 0, !.calls = 1]
  ELSE [t EXCEPT !.st = "fulfilled", !.value = undefined]

\* line 61: fn() resolved
withRetryReturn(t, v) == [t EXCEPT !.st = "fulfilled", !.value = Some(v)]

\* faulty variant: gives up one attempt early (i === retries - 2)
withRetryCatch_early(t, reason) ==
  IF reason = Nonexistent
  THEN [t EXCEPT !.st = "fulfilled", !.value = null]
  ELSE IF t.i >= RETRY_ATTEMPTS - 2
       THEN [t EXCEPT !.st = "rejected", !.value = Some(reason)]
       ELSE [t EXCEPT !.st = "backoff",
                      !.delays = Append(@, RETRY_DELAY * Pow2(t.i))]

\* faulty variant: the nonexistent-token check is missing
withRetryCatch_noSkip(t, reason) ==
  IF t.i = RETRY_ATTEMPTS - 1
  THEN [t EXCEPT !.st = "rejected", !.value = Some(reason)]
  ELSE [t EXCEPT !.st = "backoff",
                 !.delays = Append(@, RETRY_DELAY * Pow2(t.i))]

\* faulty variant: the last error is never thrown (i === retries), the loop runs out
withRetryCatch_neverThrows(t, reason) ==
  IF reason = Nonexistent
  THEN [t EXCEPT !.st = "fulfilled", !.value = null]
  ELSE IF t.i = RETRY_ATTEMPTS
       THEN [t EXCEPT !.st = "rejected", !.value = Some(reason)]
       ELSE [t EXCEPT !.st = "backoff",
                      !.delays = Append(@, RETRY_DELAY * Pow2(t.i))]

\* faulty variant: the delay is RETRY_DELAY every time, without the factor 2^i
withRetryCatch_fixedDelay(t, reason) ==
  IF reason = Nonexistent
  THEN [t EXCEPT !.st = "fulfilled", !.value = null]
  ELSE IF t.i = RETRY_ATTEMPTS - 1
       THEN [t EXCEPT !.st = "rejected", !.value = Some(reason)]
       ELSE [t EXCEPT !.st = "backoff",
                      !.delays = Append(@, RETRY_DELAY)]

\* lines 62-71: fn() rejected with an error whose reason is given
withRetryCatch(t, reason) ==
  IF reason = Nonexistent
  THEN [t EXCEPT !.st = "fulfilled", !.value = null]
  ELSE IF t.i = RETRY_ATTEMPTS - 1
       THEN [t EXCEPT !.st = "rejected", !.value = Some(reason)]
       ELSE [t EXCEPT !.st = "backoff",
                      !.delays = Append(@, RETRY_DELAY * Pow2(t.i))]

\* line 71 -> 59 -> 61: the timer fired, i++, loop test, fn() again
withRetryResume(t) ==
  IF t.i + 1 < RETRY_ATTEMPTS
  THEN [t EXCEPT !.st = "calling", !.i = @ + 1, !.calls = @ + 1]
  ELSE [t EXCEPT !.st = "fulfilled", !.i = @ + 1, !.value = undefined]

\* ---- p-limit -------------------------------------------------------------
Holding(ts) == {k \in DOMAIN ts : ts[k].st \in {"calling", "backoff"}}

activeCount(ts) == Cardinality(Holding(ts))

\* faulty variant: a limiter that never looks at its active count
limitHasSlot_unbounded(ts) == TRUE

\* may the head of the queue start now?
limitHasSlot(ts) == activeCount(ts) < CONFIG.CONCURRENT_REQUESTS

\* start queued tasks, oldest first, while a slot is free
RECURSIVE limitAdmit(_, _)
limitAdmit(ts, q) ==
  IF q # <<>> /\ limitHasSlot(ts)
  THEN limitAdmit([ts EXCEPT ![Head(q)] = withRetryStart(@)], Tail(q))
  ELSE [tasks |-> ts, queue |-> q]

\* ---- the run: the locals of getUniqueHolders / calculateTotalETHForHolders
Run ==
  [pc |-> pc, caught |-> caught, tasks |-> tasks, queue |-> queue,
   batches |-> batches, totalSupplyNum |-> totalSupplyNum,
   uniqueHolders |-> uniqueHolders, processedTokens |-> processedTokens,
   skippedTokens |-> skippedTokens, totalETH |-> totalETH,
   processedHolders |-> processedHolders,
   failedBalanceChecks |-> failedBalanceChecks,
   formattedTotal |-> formattedTotal, progressLog |-> progressLog,
   submitted |-> submitted, lastSettled |-> lastSettled]

\* JavaScript passes arguments by value: the argument is evaluated once, then
\* the function is applied to the value
Call(f(_), arg) == CHOOSE out \in {f(v) : v \in {arg}} : TRUE

BecomesValue(r) ==
  /\ pc' = r.pc
  /\ caught' = r.caught
  /\ tasks' = r.tasks
  /\ queue' = r.queue
  /\ batches' = r.batches
  /\ totalSupplyNum' = r.totalSupplyNum
  /\ uniqueHolders' = r.uniqueHolders
  /\ processedTokens' = r.processedTokens
  /\ skippedTokens' = r.skippedTokens
  /\ totalETH' = r.totalETH
  /\ processedHolders' = r.processedHolders
  /\ failedBalanceChecks' = r.failedBalanceChecks
  /\ formattedTotal' = r.formattedTotal
  /\ progressLog' = r.progressLog
  /\ submitted' = r.submitted
  /\ lastSettled' = r.lastSettled
  /\ UNCHANGED <<ownerOf, balanceOf, CONFIG>>

Becomes(run) == \E r \in {run} : BecomesValue(r)

\* batch.map(item => this.limit(() => withRetry(...))): lines 105-107, 150-152
submitBatch(r, kind) ==
  LET b == Head(r.batches)
      ts == [k \in 1..Len(b) |-> NewTask(kind, b[k])]
      a == limitAdmit(ts, [k \in 1..Len(b) |-> k])
  IN [r EXCEPT !.tasks = a.tasks, !.queue = a.queue,
               !.submitted = @ \o [k \in 1..Len(b) |-> <<kind, b[k]>>]]

submitOwners(r) == submitBatch(r, "owner")

submitBalances(r) == submitBatch(r, "balance")

\* lines 175-188, and main's line 199: the total is formatted and returned
returnTotal(r) ==
  [r EXCEPT !.pc = "done", !.formattedTotal = formatEther(r.totalETH)]

\* line 149: head of the balance loop
balanceLoop(r) ==
  IF r.batches = <<>>
  THEN returnTotal(r)
  ELSE Call(submitBalances, [r EXCEPT !.pc = "balances"])

\* faulty variant: totalETH = BigInt(balance) for totalETH += BigInt(balance)
RECURSIVE forEachBalance_overwrite(_, _)
forEachBalance_overwrite(balances, acc) ==
  IF balances = <<>> \/ acc.thrown THEN acc
  ELSE forEachBalance_overwrite(Tail(balances),
         IF Head(balances) = null
         THEN [acc EXCEPT !.failedBalanceChecks = @ + 1]
         ELSE IF Head(balances) = undefined
              THEN [acc EXCEPT !.thrown = TRUE]
              ELSE [acc EXCEPT !.totalETH = Head(balances)[1]])

\* faulty variant: a null balance is skipped without being counted
RECURSIVE forEachBalance_dropsFailed(_, _)
forEachBalance_dropsFailed(balances, acc) ==
  IF balances = <<>> \/ acc.thrown THEN acc
  ELSE forEachBalance_dropsFailed(Tail(balances),
         IF Head(balances) = null
         THEN acc
         ELSE IF Head(balances) = undefined
              THEN [acc EXCEPT !.thrown = TRUE]
              ELSE [acc EXCEPT !.totalETH = @ + Head(balances)[1]])

\* lines 155-161: balances.forEach; BigInt(undefined) throws a TypeError
RECURSIVE forEachBalance(_, _)
forEachBalance(balances, acc) ==
  IF balances = <<>> \/ acc.thrown THEN acc
  ELSE forEachBalance(Tail(balances),
         IF Head(balances) = null
         THEN [acc EXCEPT !.failedBalanceChecks = @ + 1]
         ELSE IF Head(balances) = undefined
              THEN [acc EXCEPT !.thrown = TRUE]
              ELSE [acc EXCEPT !.totalETH = @ + Head(balances)[1]])

\* lines 154-173: Promise.all resolved for a balance batch
balancesJoined(r) ==
  LET balances == [k \in DOMAIN r.tasks |-> r.tasks[k].value]
      acc == forEachBalance(balances,
               [totalETH |-> r.totalETH,
                failedBalanceChecks |-> r.failedBalanceChecks,
                thrown |-> FALSE])
      processed == r.processedHolders + Len(Head(r.batches))
  IN IF acc.thrown
     THEN [r EXCEPT !.pc = "failed", !.caught = "TypeError",
                    !.totalETH = acc.totalETH,
                    !.failedBalanceChecks = acc.failedBalanceChecks]
     ELSE Call(balanceLoop,
       [r EXCEPT !.totalETH = acc.totalETH,
                 !.failedBalanceChecks = acc.failedBalanceChecks,
                 !.processedHolders = processed,
                 !.progressLog = Append(@,
                    <<"balance", processed - acc.failedBalanceChecks,
                      processed, Len(r.uniqueHolders)>>),
                 !.batches = Tail(@)])

\* lines 134-147: getUniqueHolders returns, the balance pipeline is set up
startBalances(r) ==
  Call(balanceLoop,
    [r EXCEPT !.batches = chunk(r.uniqueHolders, CONFIG.BALANCE_BATCH_SIZE),
              !.totalETH = 0, !.processedHolders = 0,
              !.failedBalanceChecks = 0])

\* line 104: head of the owner loop
ownerLoop(r) ==
  IF r.batches = <<>>
  THEN startBalances(r)
  ELSE Call(submitOwners, [r EXCEPT !.pc = "owners"])

\* lines 110-116: owners.forEach
RECURSIVE forEachOwner(_, _)
forEachOwner(owners, acc) ==
  IF owners = <<>> THEN acc
  ELSE forEachOwner(Tail(owners),
         IF Head(owners) = null
         THEN [acc EXCEPT !.skippedTokens = @ + 1]
         ELSE [acc EXCEPT !.uniqueHolders = SetAdd(@, Head(owners)[1])])

\* faulty variant: processedTokens += OWNER_BATCH_SIZE for += batch.length
ownersJoined_fullBatch(r) ==
  LET owners == [k \in DOMAIN r.tasks |-> r.tasks[k].value]
      acc == forEachOwner(owners,
               [uniqueHolders |-> r.uniqueHolders,
                skippedTokens |-> r.skippedTokens])
      processed == r.processedTokens + CONFIG.OWNER_BATCH_SIZE
  IN Call(ownerLoop,
       [r EXCEPT !.uniqueHolders = acc.uniqueHolders,
                 !.skippedTokens = acc.skippedTokens,
                 !.processedTokens = processed,
                 !.progressLog = Append(@,
                    <<"owner", processed - acc.skippedTokens,
                      processed, r.totalSupplyNum>>),
                 !.batches = Tail(@)])

\* lines 109-128: Promise.all resolved for an owner batch
ownersJoined(r) ==
  LET owners == [k \in DOMAIN r.tasks |-> r.tasks[k].value]
      acc == forEachOwner(owners,
               [uniqueHolders |-> r.uniqueHolders,
                skippedTokens |-> r.skippedTokens])
      processed == r.processedTokens + Len(Head(r.batches))
  IN Call(ownerLoop,
       [r EXCEPT !.uniqueHolders = acc.uniqueHolders,
                 !.skippedTokens = acc.skippedTokens,
                 !.processedTokens = processed,
                 !.progressLog = Append(@,
                    <<"owner", processed - acc.skippedTokens,
                      processed, r.totalSupplyNum>>),
                 !.batches = Tail(@)])

\* lines 94-103: totalSupply() resolved with n
getUniqueHolders(r, n) ==
  Call(ownerLoop,
    [r EXCEPT !.totalSupplyNum = n,
              !.uniqueHolders = <<>>,
              !.batches = chunk([i \in 1..n |-> i], CONFIG.OWNER_BATCH_SIZE),
              !.processedTokens = 0, !.skippedTokens = 0])

\* faulty variant: when a lookup throws, the lookups of the batch that came
\* back before it are counted as processed before the error is passed on
promiseAll_keepsFulfilled(r, t) ==
  IF r.pc \notin {"owners", "balances"} THEN r
  ELSE IF t.st = "rejected"
       THEN [r EXCEPT !.pc = "failed", !.caught = t.value[1],
                      !.processedTokens = @ +
                         Cardinality({k \in DOMAIN r.tasks :
                                        r.tasks[k].st = "fulfilled"})]
       ELSE IF \A k \in DOMAIN r.tasks : r.tasks[k].st = "fulfilled"
            THEN IF r.pc = "owners" THEN ownersJoined(r)
                 ELSE balancesJoined(r)
            ELSE r

\* faulty variant: Promise.race for Promise.all, the batch is taken as joined
\* as soon as one of its promises is fulfilled
promiseAll_any(r, t) ==
  IF r.pc \notin {"owners", "balances"} THEN r
  ELSE IF t.st = "rejected"
       THEN [r EXCEPT !.pc = "failed", !.caught = t.value[1]]
       ELSE IF \E k \in DOMAIN r.tasks : r.tasks[k].st = "fulfilled"
            THEN IF r.pc = "owners" THEN ownersJoined(r)
                 ELSE balancesJoined(r)
            ELSE r

\* Promise.all(promises) of the awaited batch, seen when one promise settles:
\* it rejects with the first rejection (the error leaves both async methods
\* and is caught by main, lines 205-209) and resolves once all are fulfilled
promiseAll(r, t) ==
  IF r.pc \notin {"owners", "balances"} THEN r
  ELSE IF t.st = "rejected"
       THEN [r EXCEPT !.pc = "failed", !.caught = t.value[1]]
       ELSE IF \A k \in DOMAIN r.tasks : r.tasks[k].st = "fulfilled"
            THEN IF r.pc = "owners" THEN ownersJoined(r)
                 ELSE balancesJoined(r)
            ELSE r

\* faulty variant: the slot of a settled call is not handed to the next queued call
settle_noNext(r, k, t) ==
  Call(LAMBDA v : promiseAll(v, t),
       [r EXCEPT !.tasks[k] = t, !.lastSettled = Some(t)])

\* faulty variant: the counter is advanced inside the lookup's callback, when
\* the call settles, not after the join
settle_countsEarly(r, k, t) ==
  LET a == limitAdmit([r.tasks EXCEPT ![k] = t], r.queue)
  IN Call(LAMBDA v : promiseAll(v, t),
          [r EXCEPT !.tasks = a.tasks, !.queue = a.queue,
                    !.lastSettled = Some(t),
                    !.processedTokens = @ + 1])

\* a withRetry call settled: p-limit frees the slot and starts the next
\* queued task, then the promise handed out by this.limit settles
settle(r, k, t) ==
  LET a == limitAdmit([r.tasks EXCEPT ![k] = t], r.queue)
  IN Call(LAMBDA v : promiseAll(v, t),
          [r EXCEPT !.tasks = a.tasks, !.queue = a.queue,
                    !.lastSettled = Some(t)])

\* faulty variant: the wait between two attempts is outside the limiter, so
\* a call that starts to back off hands its slot to the next queued call
step_backoffFreesSlot(r, k, t) ==
  IF t.st \in {"fulfilled", "rejected"}
  THEN settle(r, k, t)
  ELSE IF t.st = "backoff" /\ r.queue # <<>>
       THEN [r EXCEPT !.tasks = [@ EXCEPT ![k] = t,
                                          ![Head(r.queue)] = withRetryStart(@)],
                      !.queue = Tail(@)]
       ELSE [r EXCEPT !.tasks[k] = t]

\* a step of the withRetry call of task k, which leaves it as t
step(r, k, t) ==
  IF t.st \in {"fulfilled", "rejected"}
  THEN settle(r, k, t)
  ELSE [r EXCEPT !.tasks[k] = t]

\* the ledger's answer to the call of task t
lookup(t) ==
  IF t.kind = "owner" THEN ownerOf[t.item] ELSE balanceOf[t.item]

\* the ledger has an answer: the token exists, the address is an address
hasAnswer(t) ==
  IF t.kind = "owner" THEN ownerOf[t.item] # NoOwner
  ELSE t.item \in DOMAIN balanceOf

\* ---- initial state -------------------------------------------------------
\* The code never looks inside an address, so the holders are named in the
\* order of their first token: "B" owns a token only after "A" owns one.
FirstHolderIsA(ledger) ==
  \A i \in DOMAIN ledger :
    ledger[i] = "B" => \E j \in 1..(i - 1) : ledger[j] = "A"

Init ==
  /\ ownerOf \in UNION {[1..n -> Owners \cup {NoOwner}] : n \in 0..MaxSupply}
  /\ FirstHolderIsA(ownerOf)
  /\ balanceOf \in [Owners -> BalanceValues]
  /\ CONFIG \in [CONCURRENT_REQUESTS : ConcurrencyLimits,
                 OWNER_BATCH_SIZE : BatchSizes,
                 BALANCE_BATCH_SIZE : BatchSizes]
  /\ pc = "start"
  /\ caught = NoError
  /\ tasks = <<>>
  /\ queue = <<>>
  /\ batches = <<>>
  /\ totalSupplyNum = 0
  /\ uniqueHolders = <<>>
  /\ processedTokens = 0
  /\ skippedTokens = 0
  /\ totalETH = 0
  /\ processedHolders = 0
  /\ failedBalanceChecks = 0
  /\ formattedTotal = null
  /\ progressLog = <<>>
  /\ submitted = <<>>
  /\ lastSettled = null

\* ---- actions -------------------------------------------------------------
\* main calls calculateTotalETHForHolders; totalSupply() answers
TotalSupplyReturns ==
  /\ pc = "start"
  /\ Becomes(getUniqueHolders(Run, Len(ownerOf)))

\* faulty variant: the error is logged and the run goes on with Number(undefined)
TotalSupplyFails_swallowed ==
  /\ pc = "start"
  /\ Becomes(getUniqueHolders([Run EXCEPT !.caught = "totalSupply"], 0))

\* totalSupply() rejects: the error reaches main's catch
TotalSupplyFails ==
  /\ pc = "start"
  /\ Becomes([Run EXCEPT !.pc = "failed", !.caught = "totalSupply"])

\* ownerOf(tokenId) / getBalance(address) resolves
CallReturns(k) ==
  /\ k \in DOMAIN tasks
  /\ tasks[k].st = "calling"
  /\ hasAnswer(tasks[k])
  /\ Becomes(step(Run, k, withRetryReturn(tasks[k], lookup(tasks[k]))))

\* ownerOf(tokenId) reverts: the token does not exist
CallReverts(k) ==
  /\ k \in DOMAIN tasks
  /\ tasks[k].st = "calling"
  /\ tasks[k].kind = "owner"
  /\ ~hasAnswer(tasks[k])
  /\ Becomes(step(Run, k,
       withRetryCatch([tasks[k] EXCEPT !.reverts = @ + 1], Nonexistent)))

\* the call fails for any other reason (network, rate limit, timeout)
CallFails(k) ==
  /\ k \in DOMAIN tasks
  /\ tasks[k].st = "calling"
  /\ Becomes(step(Run, k,
       withRetryCatch([tasks[k] EXCEPT !.fails = @ + 1], Transient)))

\* the backoff timer of line 71 fires
BackoffElapses(k) ==
  /\ k \in DOMAIN tasks
  /\ tasks[k].st = "backoff"
  /\ Becomes(step(Run, k, withRetryResume(tasks[k])))

Next ==
  \/ TotalSupplyReturns
  \/ TotalSupplyFails
  \/ \E k \in DOMAIN tasks : CallReturns(k)
  \/ \E k \in DOMAIN tasks : CallReverts(k)
  \/ \E k \in DOMAIN tasks : CallFails(k)
  \/ \E k \in DOMAIN tasks : BackoffElapses(k)

Spec == Init /\ [][Next]_vars

\* The runs checked for progress: scheduling does not depend on the amounts,
\* so the balances are fixed, and both pipelines use one batch size.
FairInit ==
  /\ Init
  /\ balanceOf = [a \in Owners |-> IF a = "A" THEN 5 ELSE 10]
  /\ CONFIG.BALANCE_BATCH_SIZE = CONFIG.OWNER_BATCH_SIZE

\* the remote calls and the backoff timers eventually finish: while a call is
\* in flight or a timer is pending, one of them eventually answers or fires
FairSpec ==
  /\ FairInit
  /\ [][Next]_vars
  /\ WF_vars(\E k \in DOMAIN tasks :
               CallReturns(k) \/ CallReverts(k) \/ CallFails(k) \/ BackoffElapses(k))

\* ---- vocabulary of the properties ---------------------------------------
Settled(t) == t.st \in {"fulfilled", "rejected"}

\* P holds of every withRetry call that can be observed: the calls of the
\* current batch and the call that settled last
EveryCall(P(_)) ==
  /\ \A k \in DOMAIN tasks : P(tasks[k])
  /\ lastSettled # null => P(lastSettled[1])

Calling == {k \in DOMAIN tasks : tasks[k].st = "calling"}

Tokens == 1..Len(ownerOf)

\* the owners of the existing tokens, by the ledger
LedgerHolders == {ownerOf[i] : i \in {j \in Tokens : ownerOf[j] # NoOwner}}

\* the balance lookups whose withRetry call threw
ExhaustedBalances ==
  {tasks[k].item : k \in {j \in DOMAIN tasks :
      tasks[j].kind = "balance" /\ tasks[j].st = "rejected"}}

RECURSIVE SumOver(_)
SumOver(S) ==
  IF S = {} THEN 0
  ELSE LET a == CHOOSE x \in S : TRUE IN balanceOf[a] + SumOver(S \ {a})

\* ---- C1 -------------------------------------------------------------------
\* C1: when exactly one balance lookup (owner b) has failed on every attempt
\* and every other lookup has succeeded, the run has returned: no error
\* reached main, the total is the sum of the balances of the other owners and
\* the failure counter is 1.
C1_FailedBalanceIsCounted ==
  \A b \in Owners :
    ( /\ ExhaustedBalances = {b}
      /\ \A k \in DOMAIN tasks : tasks[k].item # b => tasks[k].st = "fulfilled" )
    => /\ pc = "done"
       /\ caught = NoError
       /\ totalETH = SumOver(Range(uniqueHolders) \ {b})
       /\ failedBalanceChecks = 1

\* ---- C2 -------------------------------------------------------------------
\* C2: in every reachable state at most CONFIG.CONCURRENT_REQUESTS lookups
\* (owner and balance lookups go through the same limiter) have a remote call
\* in flight, whatever the number of items and the batch sizes.
C2_ConcurrencyBounded ==
  Cardinality(Calling) <= CONFIG.CONCURRENT_REQUESTS

\* the limit is reached by a batch larger than the limit, with a call waiting
C2_Witness ==
  /\ Cardinality(Calling) = CONFIG.CONCURRENT_REQUESTS
  /\ Len(tasks) > CONFIG.CONCURRENT_REQUESTS
  /\ queue # <<>>

\* ---- C3 -------------------------------------------------------------------
\* some lookup handed to the limiter is queued, calling or backing off
Pending == \E k \in DOMAIN tasks : ~Settled(tasks[k])

\* C3: every lookup submitted to the limiter eventually settles, with a value
\* or with a failure, if every remote call and every backoff timer finishes:
\* whenever lookups are outstanding, a state follows in which every lookup
\* handed to the limiter has settled (a batch is replaced by the next one only
\* once all its lookups have settled).
C3_EveryTaskSettles == Pending ~> ~Pending

\* a lookup failed for good and a lookup that had to queue behind it runs
C3_Witness ==
  /\ lastSettled # null
  /\ lastSettled[1].st = "rejected"
  /\ \E k \in Calling : k > CONFIG.CONCURRENT_REQUESTS

\* ---- C4 -------------------------------------------------------------------
\* C4: the holders getUniqueHolders returns are exactly the owners the ledger
\* gives for the existing tokens 1..n, each of them once.
C4_HoldersExact ==
  pc \in {"balances", "done"} =>
    /\ Range(uniqueHolders) = LedgerHolders
    /\ Len(uniqueHolders) = Cardinality(LedgerHolders)

\* an owner of two tokens, a nonexistent token, and the run went through
C4_Witness ==
  /\ pc = "done"
  /\ \E i, j \in Tokens : i # j /\ ownerOf[i] = ownerOf[j] /\ ownerOf[i] # NoOwner
  /\ \E i \in Tokens : ownerOf[i] = NoOwner
  /\ Len(uniqueHolders) = 1

answerOf(kind, item) ==
  IF kind = "owner" /\ ownerOf[item] = NoOwner THEN null
  ELSE IF kind = "owner" THEN Some(ownerOf[item]) ELSE Some(balanceOf[item])

RECURSIVE ownerBatches(_, _)
ownerBatches(bs, acc) ==
  IF bs = <<>> THEN acc
  ELSE ownerBatches(Tail(bs),
         forEachOwner([k \in 1..Len(Head(bs)) |-> answerOf("owner", Head(bs)[k])],
                      acc))

RECURSIVE balanceBatches(_, _)
balanceBatches(bs, acc) ==
  IF bs = <<>> THEN acc
  ELSE balanceBatches(Tail(bs),
         forEachBalance([k \in 1..Len(Head(bs)) |-> answerOf("balance", Head(bs)[k])],
                        acc))

\* the two loops run batch after batch with the given batch sizes
resultWith(ownerBatchSize, balanceBatchSize) ==
  LET o == ownerBatches(chunk([i \in Tokens |-> i], ownerBatchSize),
                        [uniqueHolders |-> <<>>, skippedTokens |-> 0])
      b == balanceBatches(chunk(o.uniqueHolders, balanceBatchSize),
                          [totalETH |-> 0, failedBalanceChecks |-> 0,
                           thrown |-> FALSE])
  IN [holders |-> Range(o.uniqueHolders), total |-> b.totalETH]

\* C6: batching is transparent: the holder set and the total a run ends with
\* are the ones every pair of batch sizes gives on the same ledger.
C6_BatchingTransparent ==
  pc = "done" =>
    \A ob, bb \in BatchSizes :
      resultWith(ob, bb) = [holders |-> Range(uniqueHolders), total |-> totalETH]

\* a finished run whose owner batch size does not divide the item count
C6_Witness ==
  /\ pc = "done"
  /\ Len(ownerOf) % CONFIG.OWNER_BATCH_SIZE # 0
  /\ Len(ownerOf) > CONFIG.OWNER_BATCH_SIZE
  /\ Len(uniqueHolders) = 2
  /\ totalETH > 0

\* ---- C7 -------------------------------------------------------------------
C7_Call(t) ==
  /\ t.st = "calling" => t.calls = t.fails + 1
  /\ (Settled(t) /\ t.reverts = 0 /\ t.fails < RETRY_ATTEMPTS) =>
       /\ t.st = "fulfilled"
       /\ t.value = Some(lookup(t))
       /\ t.calls = t.fails + 1

\* C7: a lookup that fails transiently k < RETRY_ATTEMPTS times and then
\* succeeds returns the successful value, after exactly k+1 invocations.
C7_RetryThenSuccess == EveryCall(C7_Call)

\* a lookup succeeded on its last permitted attempt
C7_Witness ==
  /\ lastSettled # null
  /\ lastSettled[1].st = "fulfilled"
  /\ lastSettled[1].value # null
  /\ lastSettled[1].fails = RETRY_ATTEMPTS - 1

\* ---- C8 -------------------------------------------------------------------
C8_Call(t) ==
  t.reverts > 0 =>
    /\ t.st = "fulfilled"
    /\ t.value = null
    /\ t.reverts = 1
    /\ t.calls = t.fails + 1
    /\ Len(t.delays) = t.fails

\* C8: a lookup whose call fails with the nonexistent-token signature returns
\* null at that attempt, whichever it is: no delay is waited for it and the
\* operation is not invoked again.
C8_NonexistentIsAbsent == EveryCall(C8_Call)

\* the nonexistent-token answer came on a later attempt
C8_Witness ==
  /\ lastSettled # null
  /\ lastSettled[1].reverts = 1
  /\ lastSettled[1].fails = RETRY_ATTEMPTS - 1

\* ---- C9 -------------------------------------------------------------------
C9_Call(t) ==
  /\ t.fails <= RETRY_ATTEMPTS
  /\ t.calls <= RETRY_ATTEMPTS
  /\ t.st = "rejected" <=> t.fails = RETRY_ATTEMPTS
  /\ t.st = "rejected" => t.calls = RETRY_ATTEMPTS /\ t.value = Some(Transient)

\* C9: a lookup that fails transiently on RETRY_ATTEMPTS attempts throws its
\* last error after exactly RETRY_ATTEMPTS invocations, not before and not
\* after more.
C9_RetryExhausted == EveryCall(C9_Call)

\* a lookup has thrown
C9_Witness ==
  /\ lastSettled # null
  /\ lastSettled[1].st = "rejected"
  /\ lastSettled[1].calls = RETRY_ATTEMPTS

\* ---- C10 ------------------------------------------------------------------
\* C10: when totalSupply() fails the error reaches the caller: no lookup is
\* ever submitted and no total is produced.
C10_SupplyFailureFatal ==
  caught = "totalSupply" =>
    /\ pc = "failed"
    /\ submitted = <<>>
    /\ tasks = <<>>
    /\ queue = <<>>
    /\ formattedTotal = null

\* totalSupply() failed on a ledger that has tokens
C10_Witness ==
  /\ caught = "totalSupply"
  /\ Len(ownerOf) > 0

\* ---- C11 ------------------------------------------------------------------
\* the withRetry call of task k settles in this step
SettlesNow(k) ==
  /\ ~Settled(tasks[k])
  /\ lastSettled' # null
  /\ lastSettled'[1].kind = tasks[k].kind
  /\ lastSettled'[1].item = tasks[k].item
  /\ lastSettled'[1].calls >= tasks[k].calls

\* every lookup of the batch in flight has completed by the end of this step
BatchCompletes ==
  \A k \in DOMAIN tasks : Settled(tasks[k]) \/ SettlesNow(k)

OwnersSubmitted == SelectSeq(submitted, LAMBDA e : e[1] = "owner")

BalancesSubmitted == SelectSeq(submitted, LAMBDA e : e[1] = "balance")

\* C11: batches are processed strictly one after the other: lookups are
\* handed to the limiter only in a step that completes every lookup of the
\* batch before, and a balance lookup is handed over only after every owner
\* lookup (one per token) has been submitted and joined.
C11_BatchesSequential ==
  [][/\ submitted' # submitted => BatchCompletes
     /\ BalancesSubmitted' # <<>> =>
          /\ Len(OwnersSubmitted') = totalSupplyNum'
          /\ processedTokens' = totalSupplyNum'
          /\ \A k \in DOMAIN tasks' : tasks'[k].kind = "balance"]_vars

\* the second batch of balance lookups is in flight after several batches of
\* owner lookups
C11_Witness ==
  /\ pc = "balances"
  /\ Len(ownerOf) > CONFIG.OWNER_BATCH_SIZE
  /\ processedHolders > 0
  /\ Calling # {}

\* ---- C12 ------------------------------------------------------------------
\* the accumulators shared by the lookups of a pipeline
Accumulators ==
  <<uniqueHolders, skippedTokens, processedTokens,
    totalETH, failedBalanceChecks, processedHolders>>

\* Promise.all of the batch in flight resolves in this step
BatchJoins ==
  /\ tasks # <<>>
  /\ BatchCompletes
  /\ \A k \in DOMAIN tasks : tasks[k].st = "fulfilled" \/ SettlesNow(k)
  /\ lastSettled'[1].st = "fulfilled"

\* C12: the accumulators (holder set, skippedTokens, processedTokens,
\* totalETH, failedBalanceChecks, processedHolders) are written only by the
\* join of a whole batch: a step that leaves a lookup of the batch queued,
\* calling or backing off leaves every accumulator as the last join left it.
C12_AccumulateAfterJoin ==
  [][/\ Accumulators' # Accumulators => BatchJoins
     /\ (\E k \in DOMAIN tasks : ~Settled(tasks[k]) /\ ~SettlesNow(k))
          => Accumulators' = Accumulators]_vars

\* a batch of balance lookups is in flight, one of its lookups has returned a
\* positive balance and another is backing off, and the total is still the 0
\* it was set to before the batch
C12_Witness ==
  /\ pc = "balances"
  /\ skippedTokens > 0
  /\ totalETH = 0
  /\ \E j, k \in DOMAIN tasks :
       /\ tasks[j].st = "fulfilled" /\ tasks[j].value # Some(0)
       /\ tasks[k].st = "backoff"

\* ---- C13 ------------------------------------------------------------------
\* what the owner loop gives when the first n tokens are looked up one after
\* the other, in the order of their ids
ownersInOrder(n) ==
  forEachOwner([i \in 1..n |-> answerOf("owner", i)],
               [uniqueHolders |-> <<>>, skippedTokens |-> 0])

\* what the balance loop gives when the first n holders of hs are looked up
\* one after the other, in the order of hs
balancesInOrder(hs, n) ==
  forEachBalance([i \in 1..n |-> answerOf("balance", hs[i])],
                 [totalETH |-> 0, failedBalanceChecks |-> 0, thrown |-> FALSE])

\* the items of the batch in flight whose withRetry call threw
Thrown == {k \in DOMAIN tasks : tasks[k].st = "rejected"}

\* C13: the order in which the lookups are admitted, retried and completed
\* has no effect on the result: in every state of every interleaving the
\* holder set, the skipped count, the total and the failed count are the ones
\* a strictly in-order run gives for the items joined so far; a run that
\* returns has joined every item, and a run that stops has joined exactly the
\* batches before the batch of the lookup that threw.
C13_OrderIndependent ==
  /\ pc \in {"owners", "balances", "done"} \/ Thrown # {} =>
       /\ Range(uniqueHolders) = Range(ownersInOrder(processedTokens).uniqueHolders)
       /\ skippedTokens = ownersInOrder(processedTokens).skippedTokens
       /\ totalETH = balancesInOrder(uniqueHolders, processedHolders).totalETH
       /\ failedBalanceChecks =
            balancesInOrder(uniqueHolders, processedHolders).failedBalanceChecks
  /\ pc = "done" =>
       /\ processedTokens = Len(ownerOf)
       /\ processedHolders = Len(uniqueHolders)
  /\ \A k \in Thrown :
       /\ pc = "failed"
       /\ tasks[k].kind = "owner" =>
            processedTokens =
              CONFIG.OWNER_BATCH_SIZE * ((tasks[k].item - 1) \div CONFIG.OWNER_BATCH_SIZE)
       /\ tasks[k].kind = "balance" =>
            /\ processedTokens = Len(ownerOf)
            /\ \E i \in 1..Len(uniqueHolders) :
                 /\ uniqueHolders[i] = tasks[k].item
                 /\ processedHolders =
                      CONFIG.BALANCE_BATCH_SIZE * ((i - 1) \div CONFIG.BALANCE_BATCH_SIZE)

\* a run has returned in which the two balance lookups of one batch completed
\* against the order of their submission, the first of them after a retry
C13_Witness ==
  /\ pc = "done"
  /\ skippedTokens > 0
  /\ Len(uniqueHolders) = 2
  /\ CONFIG.BALANCE_BATCH_SIZE >= 2
  /\ lastSettled[1].kind = "balance"
  /\ lastSettled[1].item = uniqueHolders[1]
  /\ lastSettled[1].fails > 0

\* ---- C14 ------------------------------------------------------------------
C14_Call(t) ==
  /\ \A j \in 1..Len(t.delays) : t.delays[j] = RETRY_DELAY * Pow2(j - 1)
  /\ \A j \in 2..Len(t.delays) : t.delays[j] = 2 * t.delays[j - 1]
  /\ \A j, k \in 1..Len(t.delays) : j <= k => t.delays[j] <= t.delays[k]
  /\ Len(t.delays) = IF t.st = "rejected" THEN t.fails - 1 ELSE t.fails
  /\ Len(t.delays) <= RETRY_ATTEMPTS - 1
  /\ t.st = "backoff" => Len(t.delays) = t.i + 1
  /\ t.st = "calling" => Len(t.delays) = t.i

\* C14: within one withRetry call the delay waited after the failed attempt
\* with zero-based index i is RETRY_DELAY * 2^i, each delay is twice the one
\* before, so the delays never decrease; a delay is waited after every
\* transient failure but the one of the last permitted attempt.
C14_BackoffDoubles == EveryCall(C14_Call)

\* a lookup has waited after each attempt but the last, the second time
\* longer than the first, and has thrown without waiting again
C14_Witness ==
  /\ lastSettled # null
  /\ lastSettled[1].st = "rejected"
  /\ Len(lastSettled[1].delays) = RETRY_ATTEMPTS - 1
  /\ lastSettled[1].delays[2] > lastSettled[1].delays[1]

\* ---- C15 ------------------------------------------------------------------
\* the results a batch of up to two balance lookups can hand to forEach:
\* a balance, or null for a lookup that is counted as failed
BalanceResults ==
  UNION {[1..n -> {null} \cup {Some(v) : v \in BalanceValues}] : n \in 1..2}

Nulls(bs) == Cardinality({i \in DOMAIN bs : bs[i] = null})

RECURSIVE SumOfResults(_)
SumOfResults(bs) ==
  IF bs = <<>> THEN 0
  ELSE (IF Head(bs) = null THEN 0 ELSE Head(bs)[1]) + SumOfResults(Tail(bs))

\* forEach applied to the results bs, from the accumulators as they are now
CountedFrom(bs) ==
  forEachBalance(bs, [totalETH |-> totalETH,
                      failedBalanceChecks |-> failedBalanceChecks,
                      thrown |-> FALSE])

FailedCountsOnce ==
  pc = "balances" => \A bs \in BalanceResults : \E c \in {CountedFrom(bs)} :
    /\ c.totalETH = totalETH + SumOfResults(bs)
    /\ c.totalETH >= totalETH
    /\ c.failedBalanceChecks = failedBalanceChecks + Nulls(bs)
    /\ bs = <<null>> =>
         /\ c.totalETH = totalETH
         /\ c.failedBalanceChecks = failedBalanceChecks + 1

\* C15: no step of calculateTotalETHForHolders makes totalETH smaller, and
\* from every state the balance loop reaches, a balance result that is
\* counted as failed leaves totalETH as it is and adds exactly one to
\* failedBalanceChecks, alone or next to other results of its batch.
C15_TotalMonotone ==
  /\ [][/\ totalETH' >= totalETH
        /\ failedBalanceChecks' >= failedBalanceChecks]_vars
  /\ []FailedCountsOnce

\* the total has grown with the first batch of balances and the next batch
\* is in flight
C15_Witness ==
  /\ pc = "balances"
  /\ processedHolders = 1
  /\ totalETH = 10
  /\ Pending

\* ---- C16 ------------------------------------------------------------------
RECURSIVE Flatten(_)
Flatten(bs) == IF bs = <<>> THEN <<>> ELSE Head(bs) \o Flatten(Tail(bs))

\* chunk(arr, size) cuts arr into consecutive pieces of size items, the last
\* one possibly shorter but not empty
Partitions(arr, size) ==
  \E c \in {chunk(arr, size)} :
    /\ Flatten(c) = arr
    /\ \A i \in 1..(Len(c) - 1) : Len(c[i]) = size
    /\ c # <<>> => Len(c[Len(c)]) \in 1..size
    /\ Len(c) = Ceil(Len(arr), size)

\* C16: chunk(items, batchSize) cuts items into consecutive chunks: the chunks
\* concatenated give items back, every chunk but the last has batchSize items
\* and the last has 1..batchSize; so no item is submitted twice, the owner
\* lookups submitted are those of tokens 1, 2, ... in order, and a run that
\* returns has submitted tokens 1..totalSupply and every unique holder once.
C16_ChunkPartitions ==
  /\ Partitions([i \in Tokens |-> i], CONFIG.OWNER_BATCH_SIZE)
  /\ Partitions(uniqueHolders, CONFIG.BALANCE_BATCH_SIZE)
  /\ \A i, j \in 1..Len(submitted) :
       (i # j /\ submitted[i][1] = submitted[j][1]) =>
          submitted[i][2] # submitted[j][2]
  /\ \A i \in 1..Len(OwnersSubmitted) : OwnersSubmitted[i] = <<"owner", i>>
  /\ Len(OwnersSubmitted) <= Len(ownerOf)
  /\ pc = "done" =>
       /\ Len(OwnersSubmitted) = totalSupplyNum
       /\ BalancesSubmitted =
            [i \in 1..Len(uniqueHolders) |-> <<"balance", uniqueHolders[i]>>]

\* a run has returned in which the last chunk of tokens and the last chunk
\* of holders were shorter than the batch size
C16_Witness ==
  /\ pc = "done"
  /\ CONFIG.OWNER_BATCH_SIZE = 2
  /\ Len(submitted) = 5
  /\ Len(uniqueHolders) % CONFIG.BALANCE_BATCH_SIZE # 0

\* ---- C17 ------------------------------------------------------------------
\* the progress lines printed by the owner loop, by the balance loop
OwnerProgress == SelectSeq(progressLog, LAMBDA e : e[1] = "owner")

BalanceProgress == SelectSeq(progressLog, LAMBDA e : e[1] = "balance")

\* the string "0.0"
ZeroEther == << <<0>>, <<0>> >>

\* C17: with no item to look up the pipeline submits nothing, prints no
\* progress line and returns at once with empty results: a collection of size
\* 0 ends the run in the step that learns the size, with no holder, total
\* "0.0" and every counter 0; an empty holder set ends it at the join of the
\* last owner batch with no balance lookup and total "0.0". With a batch size
\* of at least the number of items, exactly one batch is processed.
C17_EmptyAndSingleChunk ==
  /\ (pc # "start" /\ caught # "totalSupply" /\ Len(ownerOf) = 0) =>
       /\ pc = "done"
       /\ submitted = <<>> /\ tasks = <<>> /\ progressLog = <<>>
       /\ uniqueHolders = <<>>
       /\ processedTokens = 0 /\ skippedTokens = 0
  /\ (pc \in {"balances", "done"} /\ uniqueHolders = <<>>) =>
       /\ pc = "done"
       /\ BalancesSubmitted = <<>> /\ BalanceProgress = <<>>
       /\ totalETH = 0 /\ formattedTotal = ZeroEther
       /\ processedHolders = 0 /\ failedBalanceChecks = 0
  /\ (Len(ownerOf) >= 1 /\ CONFIG.OWNER_BATCH_SIZE >= Len(ownerOf)) =>
       /\ Len(OwnerProgress) <= 1
       /\ pc \in {"balances", "done"} =>
            OwnerProgress = << <<"owner", Len(ownerOf) - skippedTokens,
                                Len(ownerOf), Len(ownerOf)>> >>
       /\ \A k \in DOMAIN tasks :
            tasks[k].kind = "owner" => Len(tasks) = Len(ownerOf)
  /\ (Len(uniqueHolders) >= 1 /\ CONFIG.BALANCE_BATCH_SIZE >= Len(uniqueHolders)) =>
       /\ Len(BalanceProgress) <= 1
       /\ pc = "done" =>
            BalanceProgress = << <<"balance", Len(uniqueHolders),
                                  Len(uniqueHolders), Len(uniqueHolders)>> >>
       /\ \A k \in DOMAIN tasks :
            tasks[k].kind = "balance" => Len(tasks) = Len(uniqueHolders)

\* a run over several tokens, none of which exists, has returned after its one
\* batch of owner lookups
C17_Witness ==
  /\ pc = "done"
  /\ Len(ownerOf) >= 2
  /\ uniqueHolders = <<>>
  /\ Len(progressLog) = 1
  /\ formattedTotal = ZeroEther

\* ---- C18 ------------------------------------------------------------------
\* the lookups inside their withRetry call: in a remote call or waiting for
\* the backoff timer
InSlot == {k \in DOMAIN tasks : tasks[k].st \in {"calling", "backoff"}}

BackingOff == {k \in DOMAIN tasks : tasks[k].st = "backoff"}

Queued == {k \in DOMAIN tasks : tasks[k].st = "queued"}

\* C18: a lookup holds its limiter slot from its first attempt until its
\* withRetry call settles, the backoff waits included: the lookups calling or
\* backing off are never more than CONFIG.CONCURRENT_REQUESTS, the lookups
\* not yet admitted are exactly the limiter's queue and have made no attempt,
\* and while CONCURRENT_REQUESTS lookups back off no other lookup is calling.
C18_SlotHeldInBackoff ==
  /\ Cardinality(InSlot) <= CONFIG.CONCURRENT_REQUESTS
  /\ Range(queue) = Queued
  /\ \A k \in Queued : tasks[k].calls = 0
  /\ \A k \in InSlot : tasks[k].calls >= 1
  /\ Cardinality(BackingOff) = CONFIG.CONCURRENT_REQUESTS => Calling = {}

\* every slot is taken by a lookup that is backing off while another lookup
\* waits in the queue
C18_Witness ==
  /\ Cardinality(BackingOff) = CONFIG.CONCURRENT_REQUESTS
  /\ CONFIG.CONCURRENT_REQUESTS = 2
  /\ queue # <<>>

\* ---- C19 ------------------------------------------------------------------
\* the items of the batch in flight, as they were handed to the limiter
BatchInFlight == [k \in DOMAIN tasks |-> <<tasks[k].kind, tasks[k].item>>]

\* nothing was handed to the limiter after the batch in flight, and the
\* counters stand where the batches before it left them
StoppedAtBatch ==
  /\ pc = "failed"
  /\ formattedTotal = null
  /\ Len(submitted) >= Len(tasks)
  /\ SubSeq(submitted, Len(submitted) - Len(tasks) + 1, Len(submitted)) = BatchInFlight
  /\ Len(OwnersSubmitted) =
       processedTokens + (IF BalancesSubmitted = <<>> THEN Len(tasks) ELSE 0)
  /\ Len(BalancesSubmitted) =
       IF BalancesSubmitted = <<>> THEN 0 ELSE processedHolders + Len(tasks)
  /\ skippedTokens + Len(uniqueHolders) <= processedTokens

\* C19: the results of a batch are accumulated all together or not at all:
\* the step in which a lookup of the batch throws out of withRetry, and every
\* step after it, changes no accumulator and hands nothing to the limiter;
\* the counters then cover the batches before that batch only, and the last
\* items handed to the limiter are those of that batch.
C19_AllOrNothing ==
  /\ [][Thrown' # {} =>
          /\ Accumulators' = Accumulators
          /\ submitted' = submitted
          /\ progressLog' = progressLog]_vars
  /\ [](Thrown # {} => StoppedAtBatch)

\* a lookup threw in a batch in which another lookup returned an owner, and
\* tokens of later batches were never looked up
C19_Witness ==
  /\ pc = "failed"
  /\ \E j, k \in DOMAIN tasks :
       /\ tasks[j].st = "rejected"
       /\ tasks[k].st = "fulfilled" /\ tasks[k].value # null
  /\ Len(submitted) < Len(ownerOf)
  /\ uniqueHolders = <<>>

\* ---- C20 ------------------------------------------------------------------
\* the owner batches joined so far: one progress line is printed per join
OwnerJoins == Len(OwnerProgress)

\* the tokens of the joined batches whose lookup returned null
AbsentJoined == {i \in 1..processedTokens : ownerOf[i] = NoOwner}

\* C20: after the join of each batch of getUniqueHolders, processedTokens is
\* the number of items of the batches joined so far, skippedTokens is the
\* number of those whose lookup returned null, 0 <= skippedTokens <=
\* processedTokens <= totalSupply, and there are at most processedTokens -
\* skippedTokens holders; once getUniqueHolders has returned, processedTokens
\* is totalSupply.
C20_CountersConsistent ==
  (pc # "start" /\ caught # "totalSupply") =>
    /\ processedTokens = Min(OwnerJoins * CONFIG.OWNER_BATCH_SIZE, totalSupplyNum)
    /\ skippedTokens = Cardinality(AbsentJoined)
    /\ 0 <= skippedTokens
    /\ skippedTokens <= processedTokens
    /\ processedTokens <= totalSupplyNum
    /\ Len(uniqueHolders) <= processedTokens - skippedTokens
    /\ OwnerJoins > 0 =>
         OwnerProgress[OwnerJoins] =
           <<"owner", processedTokens - skippedTokens, processedTokens, totalSupplyNum>>
    /\ pc \in {"balances", "done"} =>
         /\ processedTokens = totalSupplyNum
         /\ OwnerJoins = Ceil(totalSupplyNum, CONFIG.OWNER_BATCH_SIZE)

\* two batches are joined, one of their tokens does not exist and the other
\* gave a holder, and the third batch is in flight
C20_Witness ==
  /\ pc = "owners"
  /\ OwnerJoins = 2
  /\ skippedTokens = 1
  /\ Len(uniqueHolders) = 1
  /\ Pending

====
